---- MODULE Spec2Model ----
(***************************************************************************)
(* API Keymaster: the encrypted vault engine.                              *)
(*                                                                         *)
(* Two programs share the engine:                                          *)
(*   - the networked handler (src/src/api-keymaster-netlify-function),     *)
(*     one invocation per HTTP request, several invocations possibly in    *)
(*     flight at once, all talking to one key-value store;                 *)
(*   - the local engine, class ApiKeymaster (src/README.md), one process,  *)
(*     one vault file.                                                     *)
(*                                                                         *)
(* A handler invocation is modelled as a small process whose steps are the *)
(* store calls it awaits: the code between two awaits touches only the     *)
(* invocation's own locals and is part of the step that follows the await. *)
(***************************************************************************)
EXTENDS Integers, Sequences, FiniteSets, TLC

(***************************************************************************)
(* Bounds of the model.                                                    *)
(***************************************************************************)
\* number of requests an execution starts
MaxRequests == 4
\* the clock reads 0..MaxClock
MaxClock == 1
\* number of local-engine calls an execution makes
MaxCalls == 4
\* number of encryptions of one vault a trial of the helpers makes
MaxBlobs == 2

(***************************************************************************)
(* Input domains.  Platform identifiers are ordinary names.  Key names are *)
(* ordinary names and "__proto__", a name every JavaScript object inherits *)
(* from Object.prototype.                                                  *)
(***************************************************************************)
Users == {"alice", "bob"}
Passwords == {"pw1", "pw2"}
Platforms == {"github", "netlify"}
KeyNames == {"a", "b", "__proto__"}
\* the <<platform, keyName>> pairs the requests name
Targets ==
    { <<"github", "a">>, <<"github", "b">>, <<"github", "__proto__">>,
      <<"netlify", "a">> }
\* a credential as a request carries it: <<keyValue, meta>>, the field 'meta'
\* absent ("undefined") or an object
Credentials == {<<"v1", "undefined">>, <<"v2", "{desc}">>}
\* outcomes of crypto.randomBytes(16).toString('hex')
Salts == {"s1", "s2"}
\* outcomes of crypto.randomBytes(16)
IVs == {"iv1", "iv2"}

Null == "null"

(***************************************************************************)
(* JavaScript objects.  An object is the function of its own properties.   *)
(* Reading obj[name] also finds the properties inherited from              *)
(* Object.prototype; every value stored in a vault is an object, hence     *)
(* truthy, and so is every inherited member.                               *)
(***************************************************************************)
InheritedNames == {"__proto__"}

EmptyObject == [n \in {} |-> Null]

\* Object.keys(obj)
ObjectKeys(obj) == DOMAIN obj

\* obj[name] is truthy, i.e. !obj[name] is false
Truthy(obj, name) == name \in DOMAIN obj \/ name \in InheritedNames

\* obj[name] = val.  Assigning to "__proto__" runs the inherited setter: it
\* replaces the prototype of obj and creates no own property.
PutProp(obj, name, val) ==
    IF name = "__proto__"
    THEN obj
    ELSE [n \in (DOMAIN obj) \cup {name} |-> IF n = name THEN val ELSE obj[n]]

\* delete obj[name]
DeleteProp(obj, name) == [n \in (DOMAIN obj) \ {name} |-> obj[n]]

\* JSON.stringify / JSON.parse of a vault: the text carries the own
\* properties, nothing of the prototype chain.
JSONstringify(obj) == [json |-> obj]
JSONparse(text) == text.json

(***************************************************************************)
(* Encryption helpers.  scrypt is modelled as an injective function of     *)
(* (password, salt); AES-256-GCM symbolically: a ciphertext opens only     *)
(* under the key and IV it was made with, a tag verifies only under the    *)
(* key, IV and ciphertext it was computed over.                            *)
(***************************************************************************)
deriveKey(password, salt) == <<password, salt>>

GcmCiphertext(key, iv, plaintext) == [k |-> key, iv |-> iv, pt |-> plaintext]
GcmTag(key, iv, ciphertext) == <<key, iv, ciphertext>>

\* mutant of encrypt: the IV is a constant, not the bytes drawn
encryptFixedIV(data, password, salt, iv) ==
    LET key == deriveKey(password, salt)
        encrypted == GcmCiphertext(key, "iv1", JSONstringify(data))
    IN  [iv |-> "iv1", authTag |-> GcmTag(key, "iv1", encrypted),
         encrypted |-> encrypted]

\* mutant of encrypt: the key is derived from the password and a constant,
\* not from the salt given
encryptConstantSalt(data, password, salt, iv) ==
    LET key == deriveKey(password, "api-keymaster-salt")
        encrypted == GcmCiphertext(key, iv, JSONstringify(data))
    IN  [iv |-> iv, authTag |-> GcmTag(key, iv, encrypted), encrypted |-> encrypted]

\* encrypt(data, password, salt), iv being the 16 random bytes it draws
encrypt(data, password, salt, iv) ==
    LET key == deriveKey(password, salt)
        encrypted == GcmCiphertext(key, iv, JSONstringify(data))
    IN  [iv |-> iv, authTag |-> GcmTag(key, iv, encrypted), encrypted |-> encrypted]

\* mutant of decryptThrows: the tag is not verified
decryptNeverThrows(encryptedData, password, salt) == FALSE

\* decrypt(encryptedData, password, salt) throws
decryptThrows(encryptedData, password, salt) ==
    encryptedData.authTag
        # GcmTag(deriveKey(password, salt), encryptedData.iv, encryptedData.encrypted)

\* decrypt(encryptedData, password, salt) when it does not throw
decrypt(encryptedData, password, salt) == JSONparse(encryptedData.encrypted.pt)

(***************************************************************************)
(* The vault operations of the handler's switch (operation).               *)
(***************************************************************************)
\* mutant of ListResult: the items carry the whole entry
ListResultWithValues(vault) ==
    [p \in DOMAIN vault |->
        { [name |-> k, added |-> vault[p][k].added, meta |-> vault[p][k].meta,
           value |-> vault[p][k].value] : k \in DOMAIN vault[p] }]

\* 'list': platforms and keys, without values
ListResult(vault) ==
    [p \in ObjectKeys(vault) |->
        { [name |-> k, added |-> vault[p][k].added, meta |-> vault[p][k].meta] :
            k \in ObjectKeys(vault[p]) }]

\* 'get' finds something to return: keyData is truthy
GetFound(vault, platform, keyName) ==
    Truthy(IF platform \in DOMAIN vault THEN vault[platform] ELSE EmptyObject, keyName)

\* 'get': the keyData returned; an inherited member serialises as {}
GetResult(vault, platform, keyName) ==
    IF platform \in DOMAIN vault /\ keyName \in DOMAIN vault[platform]
    THEN vault[platform][keyName]
    ELSE EmptyObject

\* meta || {}
MetaOrEmpty(meta) == IF meta = "undefined" THEN "{}" ELSE meta

\* 'add': initialise the platform if it does not exist, then set the key
VaultAdd(vault, platform, keyName, keyValue, meta, time) ==
    LET v1 == IF ~Truthy(vault, platform)
              THEN PutProp(vault, platform, EmptyObject)
              ELSE vault
    IN  [v1 EXCEPT ![platform] =
            PutProp(v1[platform], keyName,
                    [value |-> keyValue, added |-> time, meta |-> MetaOrEmpty(meta)])]

\* 'remove' answers 404 'Key not found'
RemoveNotFound(vault, platform, keyName) ==
    ~Truthy(vault, platform) \/ ~Truthy(vault[platform], keyName)

\* mutant of VaultRemove: an emptied platform is left in the vault
VaultRemoveKeepsPlatform(vault, platform, keyName) ==
    [vault EXCEPT ![platform] = DeleteProp(vault[platform], keyName)]

\* 'remove': delete the key, then the platform if it is empty
VaultRemove(vault, platform, keyName) ==
    LET v1 == [vault EXCEPT ![platform] = DeleteProp(vault[platform], keyName)]
    IN  IF ObjectKeys(v1[platform]) = {}
        THEN DeleteProp(v1, platform)
        ELSE v1

(***************************************************************************)
(* State.                                                                  *)
(*   kvStore  the key-value store: the function of the keys that are set   *)
(*   req      the handler invocations: locals and position of each         *)
(*   tokens   the identities a bearer token has been issued for            *)
(*   now      the clock (new Date())                                       *)
(*   started  the number of requests started so far                        *)
(*   live     history: the <<username, platform, keyName>> whose last      *)
(*            reported success was an 'add' (not a 'remove')               *)
(***************************************************************************)
VARIABLES kvStore, req, tokens, now, started, live

\* the state of the networked service but the clock
serviceVars == <<kvStore, req, tokens, started, live>>

(***************************************************************************)
(* State of the local engine (class ApiKeymaster).                         *)
(*   engine     the fields of the ApiKeymaster object                      *)
(*   vaultFile  the vault file: whether it exists, and its content         *)
(*   outcome    what the last call did: returned or threw, and what        *)
(*   calls      the number of calls made so far                            *)
(***************************************************************************)
VARIABLES engine, vaultFile, outcome, calls

localVars == <<engine, vaultFile, outcome, calls>>

(***************************************************************************)
(* A trial of the encryption helpers on their own.                         *)
(*   trial  the inputs (a vault, a password, a salt), the IVs drawn and    *)
(*          the blobs encrypt made of the inputs, and what the last        *)
(*          decrypt gave                                                   *)
(***************************************************************************)
VARIABLES trial

vars == <<kvStore, req, tokens, now, started, live, engine, vaultFile, outcome, calls,
          trial>>

SaltKey(username) == <<"user", username, "salt">>
\* mutant of VaultKey: the key leaves the user out
VaultKeyShared(username) == <<"user", "vault">>

VaultKey(username) == <<"user", username, "vault">>
LastModifiedKey(username) == <<"user", username, "lastModified">>

\* kvStore.get(key) returns a value
KvHas(key) == key \in DOMAIN kvStore

\* the store after kvStore.set(key, value)
KvSet(store, key, value) ==
    [k \in (DOMAIN store) \cup {key} |-> IF k = key THEN value ELSE store[k]]

EmptyStore == [k \in {} |-> Null]

\* !x for a request field: missing or the empty string
Falsy(x) == x \in {Null, ""}

\* a local that holds no blob yet
NoBlob ==
    [iv |-> Null, authTag |-> <<>>,
     encrypted |-> [k |-> <<>>, iv |-> Null, pt |-> JSONstringify(EmptyObject)]]

\* a vault value of no bytes at all: the empty string
EmptyBlob == [iv |-> "", authTag |-> <<>>, encrypted |-> NoBlob.encrypted]

\* kvStore.get(`user:${username}:vault`) returns a truthy value: the key is
\* set, and to something other than the empty string
HasVault(username) ==
    /\ KvHas(VaultKey(username))
    /\ kvStore[VaultKey(username)] # EmptyBlob

\* an invocation that has not read its event yet
IdleReq ==
    [pc |-> "idle", endpoint |-> Null, httpMethod |-> Null, username |-> Null,
     masterPassword |-> Null, operation |-> Null, platform |-> Null,
     keyName |-> Null, keyValue |-> Null, meta |-> Null,
     salt |-> Null, encryptedVault |-> NoBlob, vault |-> EmptyObject,
     updatedVault |-> NoBlob, vaultSet |-> FALSE, lastModifiedSet |-> FALSE,
     statusCode |-> 0, body |-> EmptyObject]

\* return { statusCode, body, headers }: the invocation ends and its locals
\* go; the slot keeps the response, which request it answered, and which of
\* its store writes resolved
Return(q, statusCode, body) ==
    [IdleReq EXCEPT !.pc = "done", !.statusCode = statusCode, !.body = body,
                    !.endpoint = q.endpoint, !.httpMethod = q.httpMethod,
                    !.username = q.username, !.operation = q.operation,
                    !.platform = q.platform, !.keyName = q.keyName,
                    !.vaultSet = q.vaultSet,
                    !.lastModifiedSet = q.lastModifiedSet]

Error(q, statusCode, message) == Return(q, statusCode, [error |-> message])

\* a slot is free for the next request
CanStart(r) ==
    /\ req[r].pc \in {"idle", "done"}
    /\ started < MaxRequests

\* the outcomes of one kvStore.set: it resolves, or (setFails) it may throw
SetOutcomes(in) == IF in.setFails THEN {TRUE, FALSE} ELSE {TRUE}

(***************************************************************************)
(* case 'login'                                                            *)
(***************************************************************************)
\* a login request arrives; the handler reads the salt
LoginStart(r, in) ==
    /\ CanStart(r)
    /\ started' = started + 1
    /\ \E ev \in in.loginEvents :
        LET method == ev[1]
            username == ev[2]
            masterPassword == ev[3]
            q == [IdleReq EXCEPT !.endpoint = "login", !.httpMethod = method,
                                 !.username = username,
                                 !.masterPassword = masterPassword]
        IN  IF method # "POST"
            THEN req' = [req EXCEPT ![r] = Error(q, 405, "Method not allowed")]
            ELSE IF Falsy(username) \/ Falsy(masterPassword)
            THEN req' = [req EXCEPT ![r] =
                            Error(q, 400, "Username and master password required")]
            ELSE IF KvHas(SaltKey(username))
            THEN req' = [req EXCEPT ![r] =
                            [q EXCEPT !.pc = "login_getVault",
                                      !.salt = kvStore[SaltKey(username)]]]
            ELSE \E salt \in in.salts :
                    req' = [req EXCEPT ![r] =
                            [q EXCEPT !.pc = "login_setSalt", !.salt = salt]]
    /\ UNCHANGED <<kvStore, tokens, now, live>>
    /\ UNCHANGED <<localVars, trial>>

\* await kvStore.set(`user:${username}:salt`, salt)
LoginSetSalt(r, in) ==
    /\ req[r].pc = "login_setSalt"
    /\ \E ok \in SetOutcomes(in) :
        IF ok
        THEN /\ kvStore' = KvSet(kvStore, SaltKey(req[r].username), req[r].salt)
             /\ req' = [req EXCEPT ![r].pc = "login_getVault"]
        ELSE /\ req' = [req EXCEPT ![r] = Error(@, 500, "Internal server error")]
             /\ UNCHANGED kvStore
    /\ UNCHANGED <<tokens, now, started, live>>
    /\ UNCHANGED <<localVars, trial>>

\* the login answers 200 with a token for the user
LoginSucceeds(q) == Return(q, 200, [success |-> TRUE, token |-> q.username])

\* let vault = await kvStore.get(`user:${username}:vault`): a stored vault
\* ends the login with a token, no vault makes the handler create one
LoginGetVault(r, in) ==
    /\ req[r].pc = "login_getVault"
    /\ IF HasVault(req[r].username)
       THEN /\ req' = [req EXCEPT ![r] =
                        LoginSucceeds([@ EXCEPT !.encryptedVault =
                                            kvStore[VaultKey(req[r].username)]])]
            /\ tokens' = tokens \cup {req[r].username}
       ELSE /\ \E iv \in in.ivs :
                req' = [req EXCEPT ![r] =
                        [@ EXCEPT !.pc = "login_setVault",
                                  !.vault = EmptyObject,
                                  !.updatedVault =
                                      encrypt(EmptyObject, req[r].masterPassword,
                                              req[r].salt, iv)]]
            /\ UNCHANGED tokens
    /\ UNCHANGED <<kvStore, now, started, live>>
    /\ UNCHANGED <<localVars, trial>>

\* await kvStore.set(`user:${username}:vault`, vault), then the token
LoginSetVault(r, in) ==
    /\ req[r].pc = "login_setVault"
    /\ \E ok \in SetOutcomes(in) :
        IF ok
        THEN /\ kvStore' = KvSet(kvStore, VaultKey(req[r].username),
                                 req[r].updatedVault)
             /\ req' = [req EXCEPT ![r] = LoginSucceeds([@ EXCEPT !.vaultSet = TRUE])]
             /\ tokens' = tokens \cup {req[r].username}
        ELSE /\ req' = [req EXCEPT ![r] = Error(@, 500, "Internal server error")]
             /\ UNCHANGED <<kvStore, tokens>>
    /\ UNCHANGED <<now, started, live>>
    /\ UNCHANGED <<localVars, trial>>

(***************************************************************************)
(* case 'vault'                                                            *)
(***************************************************************************)
NoBody ==
    [masterPassword |-> Null, operation |-> Null, platform |-> Null,
     keyName |-> Null, keyValue |-> Null, meta |-> Null]

\* the well-formed POST bodies over the given input sets; a target is a
\* <<platform, keyName>>
Bodies(passwords, operations, targets, credentials) ==
    UNION {
        CASE operation = "list" ->
                { [NoBody EXCEPT !.operation = "list", !.masterPassword = pw] :
                    pw \in passwords }
          [] operation \in {"get", "remove"} ->
                { [NoBody EXCEPT !.operation = operation, !.masterPassword = pw,
                                 !.platform = t[1], !.keyName = t[2]] :
                    pw \in passwords, t \in targets }
          [] operation = "add" ->
                { [masterPassword |-> pw, operation |-> "add", platform |-> t[1],
                   keyName |-> t[2], keyValue |-> c[1], meta |-> c[2]] :
                    pw \in passwords, t \in targets, c \in credentials }
          [] OTHER -> {}
        : operation \in operations }

\* POST bodies the handler turns down with 400
InvalidBodies ==
    { [NoBody EXCEPT !.operation = "list"],
      [NoBody EXCEPT !.operation = "rename", !.masterPassword = "pw1"],
      [NoBody EXCEPT !.operation = "get", !.masterPassword = "pw1",
                     !.keyName = "a"],
      [NoBody EXCEPT !.operation = "add", !.masterPassword = "pw1",
                     !.platform = "github", !.keyName = "a", !.keyValue = ""],
      [NoBody EXCEPT !.operation = "remove", !.masterPassword = "pw1",
                     !.platform = "github", !.keyName = ""] }

\* a vault request: <<httpMethod, carries a valid token, body>>
VaultEvents(bodies) ==
    { <<"POST", TRUE, b>> : b \in bodies }
        \cup { <<"GET", TRUE, NoBody>>, <<"PUT", TRUE, NoBody>>,
               <<"GET", FALSE, NoBody>> }

\* getAuthUser(event): the identity of a token issued earlier, or null
AuthUsers(authenticated) == IF authenticated THEN tokens ELSE {Null}

\* a vault request arrives; the handler authenticates it and reads the salt
VaultStart(r, in) ==
    /\ CanStart(r)
    /\ started' = started + 1
    /\ \E ev \in in.vaultEvents :
       \E user \in AuthUsers(ev[2]) :
        LET b == ev[3]
            q == [IdleReq EXCEPT !.endpoint = "vault", !.httpMethod = ev[1],
                                 !.username = user,
                                 !.masterPassword = b.masterPassword,
                                 !.operation = b.operation,
                                 !.platform = b.platform,
                                 !.keyName = b.keyName,
                                 !.keyValue = b.keyValue,
                                 !.meta = b.meta]
        IN  IF user = Null
            THEN req' = [req EXCEPT ![r] = Error(q, 401, "Unauthorized")]
            ELSE IF ~KvHas(SaltKey(user))
            THEN req' = [req EXCEPT ![r] = Error(q, 404, "User not found")]
            ELSE req' = [req EXCEPT ![r] =
                            [q EXCEPT !.pc = "vault_getVault",
                                      !.salt = kvStore[SaltKey(user)]]]
    /\ UNCHANGED <<kvStore, tokens, now, live>>
    /\ UNCHANGED <<localVars, trial>>

\* the handler goes on to persist the mutated vault
Persist(q, vault, iv) ==
    [q EXCEPT !.pc = "vault_setVault",
              !.vault = vault,
              !.updatedVault = encrypt(vault, q.masterPassword, q.salt, iv)]

\* switch (operation), on the decrypted vault; time and iv are what
\* new Date() and crypto.randomBytes(16) give
Operate(q, vault, time, iv) ==
    CASE q.operation = "list" ->
            Return(q, 200, ListResult(vault))
      [] q.operation = "get" ->
            IF Falsy(q.platform) \/ Falsy(q.keyName)
            THEN Error(q, 400, "Platform and key name required")
            ELSE IF ~GetFound(vault, q.platform, q.keyName)
            THEN Error(q, 404, "Key not found")
            ELSE Return(q, 200, GetResult(vault, q.platform, q.keyName))
      [] q.operation = "add" ->
            IF Falsy(q.platform) \/ Falsy(q.keyName) \/ Falsy(q.keyValue)
            THEN Error(q, 400, "Platform, key name, and value required")
            ELSE Persist(q, VaultAdd(vault, q.platform, q.keyName, q.keyValue,
                                     q.meta, time), iv)
      [] q.operation = "remove" ->
            IF Falsy(q.platform) \/ Falsy(q.keyName)
            THEN Error(q, 400, "Platform and key name required")
            ELSE IF RemoveNotFound(vault, q.platform, q.keyName)
            THEN Error(q, 404, "Key not found")
            ELSE Persist(q, VaultRemove(vault, q.platform, q.keyName), iv)
      [] OTHER ->
            Error(q, 400, "Invalid operation")

\* the POST branch after both reads: try { decrypt; switch } catch
VaultPost(q, time, iv) ==
    IF Falsy(q.masterPassword)
    THEN Error(q, 400, "Master password required")
    ELSE IF decryptThrows(q.encryptedVault, q.masterPassword, q.salt)
    THEN Error(q, 401, "Invalid master password")
    ELSE Operate(q, decrypt(q.encryptedVault, q.masterPassword, q.salt), time, iv)

\* the POST reads the clock: it is an 'add' that got as far as its entry
ReadsClock(q) ==
    /\ q.httpMethod = "POST"
    /\ q.operation = "add"
    /\ ~Falsy(q.masterPassword)
    /\ ~decryptThrows(q.encryptedVault, q.masterPassword, q.salt)
    /\ ~(Falsy(q.platform) \/ Falsy(q.keyName) \/ Falsy(q.keyValue))

\* the POST draws an IV: it gets as far as encrypt
DrawsIV(q, time) == VaultPost(q, time, Null).pc = "vault_setVault"

\* const encryptedVault = await kvStore.get(`user:${username}:vault`), and
\* the code up to the next await
VaultGetVault(r, in) ==
    /\ req[r].pc = "vault_getVault"
    /\ IF ~HasVault(req[r].username)
       THEN /\ req' = [req EXCEPT ![r] = Error(@, 404, "Vault not found")]
            /\ now' = now
       ELSE LET q == [req[r] EXCEPT !.encryptedVault =
                                        kvStore[VaultKey(req[r].username)]]
            IN  CASE q.httpMethod = "GET" ->
                        /\ req' = [req EXCEPT ![r] =
                                    [q EXCEPT !.pc = "vault_getLastModified"]]
                        /\ now' = now
                  [] q.httpMethod = "POST" ->
                        \E time \in (IF ReadsClock(q) THEN now..MaxClock ELSE {now}) :
                        \E iv \in (IF DrawsIV(q, time) THEN in.ivs ELSE {Null}) :
                            /\ req' = [req EXCEPT ![r] = VaultPost(q, time, iv)]
                            /\ now' = time
                  [] OTHER ->
                        /\ req' = [req EXCEPT ![r] =
                                    Error(q, 405, "Method not allowed")]
                        /\ now' = now
    /\ UNCHANGED <<kvStore, tokens, started, live>>
    /\ UNCHANGED <<localVars, trial>>

NoLastModified == -1

\* GET: lastModified: await kvStore.get(`user:${username}:lastModified`) || null
VaultGetLastModified(r) ==
    /\ req[r].pc = "vault_getLastModified"
    /\ req' = [req EXCEPT ![r] =
                Return(@, 200,
                       [username |-> req[r].username, hasVault |-> TRUE,
                        lastModified |->
                            IF KvHas(LastModifiedKey(req[r].username))
                            THEN kvStore[LastModifiedKey(req[r].username)]
                            ELSE NoLastModified])]
    /\ UNCHANGED <<kvStore, tokens, now, started, live>>
    /\ UNCHANGED <<localVars, trial>>

\* mutant of AfterSet: success is answered as soon as the vault blob is
\* written, lastModified is left alone
AfterSetSkipsLastModified(q, ok, onward) ==
    IF ~ok THEN Error(q, 401, "Invalid master password")
    ELSE IF onward.pc = "vault_setLastModified"
    THEN Return(onward, 200, [success |-> TRUE])
    ELSE onward

\* mutant of AfterSet: a failed set is swallowed
AfterSetIgnoresFailure(q, ok, onward) == onward

\* where the invocation goes when a kvStore.set inside the inner try has
\* resolved (ok) or thrown: on, or to the inner catch
AfterSet(q, ok, onward) ==
    IF ok THEN onward ELSE Error(q, 401, "Invalid master password")

\* await kvStore.set(`user:${username}:vault`, updatedVault)
VaultSetVault(r, in) ==
    /\ req[r].pc = "vault_setVault"
    /\ \E ok \in SetOutcomes(in) :
        /\ kvStore' = IF ok
                      THEN KvSet(kvStore, VaultKey(req[r].username), req[r].updatedVault)
                      ELSE kvStore
        /\ req' = [req EXCEPT ![r] =
                    AfterSet(@, ok, [@ EXCEPT !.pc = "vault_setLastModified",
                                              !.vaultSet = ok])]
    /\ UNCHANGED <<tokens, now, started, live>>
    /\ UNCHANGED <<localVars, trial>>

\* the history after the mutation of q has been reported successful
Reported(history, q) ==
    LET t == <<q.username, q.platform, q.keyName>>
    IN  IF q.operation = "add" THEN history \cup {t} ELSE history \ {t}

\* await kvStore.set(`user:${username}:lastModified`, new Date().toISOString()),
\* then { success: true }
VaultSetLastModified(r, in) ==
    /\ req[r].pc = "vault_setLastModified"
    /\ \E ok \in SetOutcomes(in), time \in now..MaxClock :
        /\ now' = time
        /\ kvStore' = IF ok
                      THEN KvSet(kvStore, LastModifiedKey(req[r].username), time)
                      ELSE kvStore
        /\ req' = [req EXCEPT ![r] =
                    AfterSet(@, ok, Return([@ EXCEPT !.lastModifiedSet = ok],
                                           200, [success |-> TRUE]))]
        /\ live' = IF req'[r].statusCode = 200
                   THEN Reported(live, req[r])
                   ELSE live
    /\ UNCHANGED <<tokens, started>>
    /\ UNCHANGED <<localVars, trial>>

(***************************************************************************)
(* The key-value store is a service of its own: what it holds under a      *)
(* vault key can be altered or cut short behind the handler's back.  The   *)
(* handler sees the result at its next kvStore.get.                        *)
(***************************************************************************)
\* the authentication tag of the blob is the one computed over its IV and
\* ciphertext when it was encrypted
Intact(blob) ==
    blob.authTag = GcmTag(blob.encrypted.k, blob.iv, blob.encrypted)

\* the blob cut to fewer than 32 bytes, the IV left whole: the tag is
\* incomplete and there is no ciphertext
ShortBlob(blob) == [iv |-> blob.iv, authTag |-> <<>>, encrypted |-> NoBlob.encrypted]

\* what an intact blob can be turned into: bytes of it altered, the blob cut
\* to fewer than 32 bytes, the blob cut to nothing
Corruptions(blob) == { [blob EXCEPT !.iv = "altered"], ShortBlob(blob), EmptyBlob }

StoreCorrupts ==
    /\ \E u \in Users :
        /\ KvHas(VaultKey(u))
        /\ Intact(kvStore[VaultKey(u)])
        /\ \E damaged \in Corruptions(kvStore[VaultKey(u)]) :
            kvStore' = [kvStore EXCEPT ![VaultKey(u)] = damaged]
    /\ UNCHANGED <<req, tokens, now, started, live>>
    /\ UNCHANGED <<localVars, trial>>

(***************************************************************************)
(* The local engine, class ApiKeymaster.  One call is one action: the      *)
(* engine is used by one process, one call at a time.  The calls name      *)
(* ordinary platforms and keys.                                            *)
(***************************************************************************)
\* the passwords typed at the prompt; the last one is shorter than 8
PromptPasswords == {"correcthorse123", "tr0ub4dor&3", "hunter2"}

\* the <<platform, keyName>> pairs the local calls name: a platform of the
\* default config.json with two keys, and one the config does not know
LocalTargets == { <<"github", "a">>, <<"github", "b">>, <<"aws", "a">> }

\* constructor(options)
NewEngine == [masterPassword |-> Null, vault |-> EmptyObject, initialized |-> FALSE]

NoFile == [exists |-> FALSE, data |-> NoBlob]

\* deriveKey(): scryptSync(this.masterPassword, 'api-keymaster-salt', 32)
LocalSalt == "api-keymaster-salt"

\* what a call reports
Returned(call, value) == [call |-> call, threw |-> FALSE, error |-> Null, value |-> value]
Threw(call, error) == [call |-> call, threw |-> TRUE, error |-> error, value |-> Null]

CanCall == calls < MaxCalls

\* saveVault() with this.vault = vault: the file after it; fs.writeFileSync
\* either writes the whole blob or (written false) throws and writes nothing
saveVault(e, iv, written) ==
    IF written
    THEN [exists |-> TRUE, data |-> encrypt(e.vault, e.masterPassword, LocalSalt, iv)]
    ELSE vaultFile

\* mutant of unlockVault: the engine counts as initialized although the
\* vault file did not open
unlockVaultMarksInitialized(password) ==
    LET e == [engine EXCEPT !.masterPassword = password]
    IN  IF decryptThrows(vaultFile.data, password, LocalSalt)
        THEN /\ engine' = [e EXCEPT !.initialized = TRUE]
             /\ outcome' = Threw("init", "Failed to unlock vault")
        ELSE /\ engine' = [e EXCEPT !.vault = decrypt(vaultFile.data, password, LocalSalt),
                                    !.initialized = TRUE]
             /\ outcome' = Returned("init", Null)

\* unlockVault(), the password being what the prompt gives
unlockVault(password) ==
    LET e == [engine EXCEPT !.masterPassword = password]
    IN  IF decryptThrows(vaultFile.data, password, LocalSalt)
        THEN /\ engine' = e
             /\ outcome' = Threw("init", "Failed to unlock vault")
        ELSE /\ engine' = [e EXCEPT !.vault = decrypt(vaultFile.data, password, LocalSalt),
                                    !.initialized = TRUE]
             /\ outcome' = Returned("init", Null)

\* createVault(), the password being what the prompt gives
createVault(password, iv, written) ==
    IF Len(password) < 8
    THEN /\ outcome' = Threw("init", "Password too short")
         /\ UNCHANGED <<engine, vaultFile>>
    ELSE LET e == [engine EXCEPT !.masterPassword = password, !.vault = EmptyObject]
         IN  /\ vaultFile' = saveVault(e, iv, written)
             /\ engine' = [e EXCEPT !.initialized = written \/ engine.initialized]
             /\ outcome' = IF written THEN Returned("init", Null)
                           ELSE Threw("init", "write failed")

\* init(): unlock the vault file if it exists, create it otherwise, and
\* only then this.initialized = true
EngineInit ==
    /\ CanCall
    /\ calls' = calls + 1
    /\ \E password \in PromptPasswords, iv \in IVs, written \in BOOLEAN :
        IF vaultFile.exists
        THEN unlockVault(password) /\ UNCHANGED vaultFile
        ELSE createVault(password, iv, written)
    /\ UNCHANGED <<serviceVars, now, trial>>

\* addKey(platform, keyName, keyValue, meta = {})
AddKey ==
    /\ CanCall
    /\ calls' = calls + 1
    /\ \E t \in LocalTargets, c \in Credentials, time \in now..MaxClock,
          iv \in IVs, written \in BOOLEAN :
        IF ~engine.initialized
        THEN /\ outcome' = Threw("addKey", "Vault not initialized")
             /\ UNCHANGED <<engine, vaultFile, now>>
        ELSE LET e == [engine EXCEPT !.vault =
                            VaultAdd(engine.vault, t[1], t[2], c[1], c[2], time)]
             IN  /\ now' = time
                 /\ engine' = e
                 /\ vaultFile' = saveVault(e, iv, written)
                 /\ outcome' = IF written THEN Returned("addKey", TRUE)
                               ELSE Threw("addKey", "write failed")
    /\ UNCHANGED <<serviceVars, trial>>

\* getKey(platform, keyName): the value, or null
GetKey ==
    /\ CanCall
    /\ calls' = calls + 1
    /\ \E t \in LocalTargets :
        outcome' = IF ~engine.initialized
                   THEN Threw("getKey", "Vault not initialized")
                   ELSE IF RemoveNotFound(engine.vault, t[1], t[2])
                   THEN Returned("getKey", Null)
                   ELSE Returned("getKey", engine.vault[t[1]][t[2]].value)
    /\ UNCHANGED <<engine, vaultFile, serviceVars, now, trial>>

\* listKeys()
ListKeys ==
    /\ CanCall
    /\ calls' = calls + 1
    /\ outcome' = IF ~engine.initialized
                  THEN Threw("listKeys", "Vault not initialized")
                  ELSE Returned("listKeys", ListResult(engine.vault))
    /\ UNCHANGED <<engine, vaultFile, serviceVars, now, trial>>

\* init() writes config.json when it is missing: the platforms it
\* configures and the environment variable of each
DefaultConfig ==
    [github |-> "GITHUB_TOKEN", replit |-> "REPLIT_TOKEN",
     netlify |-> "NETLIFY_AUTH_TOKEN"]

\* String.prototype.toUpperCase() on the names the calls use
toUpperCase(s) ==
    CASE s = "a" -> "A"
      [] s = "b" -> "B"
      [] s = "github" -> "GITHUB"
      [] s = "netlify" -> "NETLIFY"
      [] s = "aws" -> "AWS"
      [] OTHER -> s

\* platformConfig?.envVar || `${platform.toUpperCase()}_${keyName.toUpperCase()}`
EnvVarName(platform, keyName) ==
    IF platform \in DOMAIN DefaultConfig
    THEN DefaultConfig[platform]
    ELSE toUpperCase(platform) \o "_" \o toUpperCase(keyName)

\* the platforms execWithKeys and exportForShell are asked for
LocalPlatforms == Platforms \cup {"aws"}

\* execWithKeys(platform, command): the credentials of the platform go to the
\* environment of the child process only; with stdio 'inherit' execSync
\* returns null, and it throws when the command fails (succeeded false)
ExecWithKeys ==
    /\ CanCall
    /\ calls' = calls + 1
    /\ \E platform \in LocalPlatforms, succeeded \in BOOLEAN :
        outcome' = IF ~engine.initialized
                   THEN Threw("execWithKeys", "Vault not initialized")
                   ELSE IF ~Truthy(engine.vault, platform)
                   THEN Threw("execWithKeys", "No keys found for platform")
                   ELSE IF platform \notin DOMAIN DefaultConfig
                   THEN Threw("execWithKeys", "Platform not configured")
                   ELSE IF ~succeeded
                   THEN Threw("execWithKeys", "Command failed")
                   ELSE Returned("execWithKeys", Null)
    /\ UNCHANGED <<engine, vaultFile, serviceVars, now, trial>>

\* exportForShell(platform): one export command per key of the platform,
\* here the <<variable, value>> pair of each
ExportForShell ==
    /\ CanCall
    /\ calls' = calls + 1
    /\ \E platform \in LocalPlatforms :
        outcome' = IF ~engine.initialized
                   THEN Threw("exportForShell", "Vault not initialized")
                   ELSE IF ~Truthy(engine.vault, platform)
                   THEN Threw("exportForShell", "No keys found for platform")
                   ELSE Returned("exportForShell",
                            { <<EnvVarName(platform, keyName),
                                engine.vault[platform][keyName].value>> :
                              keyName \in ObjectKeys(engine.vault[platform]) })
    /\ UNCHANGED <<engine, vaultFile, serviceVars, now, trial>>

\* removeKey(platform, keyName)
RemoveKey ==
    /\ CanCall
    /\ calls' = calls + 1
    /\ \E t \in LocalTargets, iv \in IVs, written \in BOOLEAN :
        IF ~engine.initialized
        THEN /\ outcome' = Threw("removeKey", "Vault not initialized")
             /\ UNCHANGED <<engine, vaultFile>>
        ELSE IF RemoveNotFound(engine.vault, t[1], t[2])
        THEN /\ outcome' = Threw("removeKey", "Key not found")
             /\ UNCHANGED <<engine, vaultFile>>
        ELSE LET e == [engine EXCEPT !.vault = VaultRemove(engine.vault, t[1], t[2])]
             IN  /\ engine' = e
                 /\ vaultFile' = saveVault(e, iv, written)
                 /\ outcome' = IF written THEN Returned("removeKey", TRUE)
                               ELSE Threw("removeKey", "write failed")
    /\ UNCHANGED <<serviceVars, now, trial>>

\* the process ends and another starts: new ApiKeymaster()
Restart ==
    /\ CanCall
    /\ engine # NewEngine
    /\ engine' = NewEngine
    /\ outcome' = Returned("new", Null)
    /\ UNCHANGED <<vaultFile, calls, serviceVars, now, trial>>

(***************************************************************************)
(* The encryption helpers on their own: encrypt and decrypt applied to a   *)
(* vault, a password and a salt.                                           *)
(***************************************************************************)
\* nothing decrypted yet
NotOpened == [by |-> <<Null, Null>>, blob |-> 0, threw |-> FALSE, vault |-> EmptyObject]

NoTrial ==
    [vault |-> EmptyObject, password |-> Null, salt |-> Null,
     draws |-> <<>>, blobs |-> <<>>, opened |-> NotOpened]

\* the vaults one 'add' makes of the given vaults
AddedTo(vaults) ==
    { VaultAdd(v, t[1], t[2], c[1], c[2], time) :
        v \in vaults, t \in Targets, c \in Credentials, time \in 0..MaxClock }

\* the vaults encrypt is given: the empty vault of a login and the vaults
\* one or two 'add's make of it
TrialVaults ==
    {EmptyObject} \cup AddedTo({EmptyObject}) \cup AddedTo(AddedTo({EmptyObject}))

\* encrypt(trial.vault, trial.password, trial.salt), drawing its IV
TrialEncrypt ==
    /\ Len(trial.blobs) < MaxBlobs
    /\ \E iv \in IVs :
        trial' = [trial EXCEPT
                    !.draws = Append(@, iv),
                    !.blobs = Append(@, encrypt(trial.vault, trial.password,
                                                trial.salt, iv))]
    /\ UNCHANGED <<serviceVars, now, localVars>>

\* decrypt(blob, password, salt) of one of the blobs made, under any password
\* and salt
TrialDecrypt ==
    /\ \E i \in 1..Len(trial.blobs), password \in Passwords, salt \in Salts :
        trial' = [trial EXCEPT !.opened =
                    IF decryptThrows(trial.blobs[i], password, salt)
                    THEN [NotOpened EXCEPT !.by = <<password, salt>>, !.blob = i,
                                           !.threw = TRUE]
                    ELSE [NotOpened EXCEPT !.by = <<password, salt>>, !.blob = i,
                                           !.vault = decrypt(trial.blobs[i], password,
                                                             salt)]]
    /\ UNCHANGED <<serviceVars, now, localVars>>

(***************************************************************************)
(* The handler as a whole, and the specification of the networked service  *)
(* serving one request at a time.                                          *)
(***************************************************************************)
HandlerStep(r, in) ==
    \/ LoginStart(r, in)
    \/ LoginSetSalt(r, in)
    \/ LoginGetVault(r, in)
    \/ LoginSetVault(r, in)
    \/ VaultStart(r, in)
    \/ VaultGetVault(r, in)
    \/ VaultGetLastModified(r)
    \/ VaultSetVault(r, in)
    \/ VaultSetLastModified(r, in)

AllSlots == {1, 2}

\* one request at a time, against one identity
Slots == {1}

Inputs ==
    [loginEvents |->
        { <<"POST", "alice", pw>> : pw \in Passwords }
            \cup { <<"GET", "alice", "pw1">>, <<"POST", "alice", "">> },
     vaultEvents |->
        VaultEvents(Bodies({"pw1"}, {"list", "get", "add", "remove"},
                           Targets, { <<"v1", "undefined">> })
                        \cup Bodies({"pw1"}, {"add"}, { <<"github", "a">> },
                                    Credentials)
                        \cup Bodies({"pw2"}, {"list", "get", "add", "remove"},
                                    { <<"github", "a">> }, { <<"v1", "undefined">> })
                        \cup InvalidBodies),
     salts |-> {"s1"},
     ivs |-> {"iv1"},
     setFails |-> TRUE]

Init ==
    /\ kvStore = EmptyStore
    /\ req = [r \in AllSlots |-> IdleReq]
    /\ tokens = {}
    /\ now = 0
    /\ started = 0
    /\ live = {}
    /\ engine = NewEngine
    /\ vaultFile = NoFile
    /\ outcome = Returned("new", Null)
    /\ calls = 0
    /\ trial = NoTrial

Next == \E r \in Slots : HandlerStep(r, Inputs)

Spec == Init /\ [][Next]_vars

(***************************************************************************)
(* The networked service serving two requests at once.                     *)
(***************************************************************************)
ConcurrentInputs ==
    [loginEvents |-> { <<"POST", "alice", "pw1">> },
     vaultEvents |->
        VaultEvents(Bodies({"pw1"}, {"add"},
                           { <<"github", "a">>, <<"github", "b">> },
                           { <<"v1", "undefined">> })),
     salts |-> {"s1"},
     ivs |-> {"iv1"},
     setFails |-> FALSE]

NextConcurrent == \E r \in AllSlots : HandlerStep(r, ConcurrentInputs)

SpecConcurrent == Init /\ [][NextConcurrent]_vars

(***************************************************************************)
(* The networked service serving two requests at once, logins among them:  *)
(* one identity, either password, and a salt drawn anew by every login     *)
(* that finds none.                                                        *)
(***************************************************************************)
RaceInputs ==
    [loginEvents |-> { <<"POST", "alice", pw>> : pw \in Passwords },
     vaultEvents |->
        VaultEvents(Bodies(Passwords, {"add", "list"},
                           { <<"github", "a">> }, { <<"v1", "undefined">> })),
     salts |-> Salts,
     ivs |-> {"iv1"},
     setFails |-> FALSE]

NextRace == \E r \in AllSlots : HandlerStep(r, RaceInputs)

SpecRace == Init /\ [][NextRace]_vars

(***************************************************************************)
(* The networked service serving two requests at once, for two identities. *)
(***************************************************************************)
TwoUserInputs ==
    [loginEvents |-> { <<"POST", u, "pw1">> : u \in Users },
     vaultEvents |->
        VaultEvents(Bodies({"pw1"}, {"list", "get", "add", "remove"},
                           { <<"github", "a">> }, { <<"v1", "undefined">> })),
     salts |-> Salts,
     ivs |-> {"iv1"},
     setFails |-> FALSE]

NextTwoUsers == \E r \in AllSlots : HandlerStep(r, TwoUserInputs)

SpecTwoUsers == Init /\ [][NextTwoUsers]_vars

(***************************************************************************)
(* The networked service, one request at a time, over a store whose vault  *)
(* blobs may get corrupted.                                                *)
(***************************************************************************)
TamperInputs ==
    [loginEvents |-> { <<"POST", "alice", pw>> : pw \in Passwords },
     vaultEvents |->
        VaultEvents(Bodies(Passwords, {"list", "get", "add", "remove"},
                           { <<"github", "a">> }, { <<"v1", "undefined">> })),
     salts |-> {"s1"},
     ivs |-> {"iv1"},
     setFails |-> FALSE]

NextTamper ==
    \/ \E r \in Slots : HandlerStep(r, TamperInputs)
    \/ StoreCorrupts

SpecTamper == Init /\ [][NextTamper]_vars

(***************************************************************************)
(* The encryption helpers, for every vault, password and salt of the       *)
(* input sets.                                                             *)
(***************************************************************************)
InitCipher ==
    /\ kvStore = EmptyStore
    /\ req = [r \in AllSlots |-> IdleReq]
    /\ tokens = {}
    /\ now = 0
    /\ started = 0
    /\ live = {}
    /\ engine = NewEngine
    /\ vaultFile = NoFile
    /\ outcome = Returned("new", Null)
    /\ calls = 0
    /\ trial \in { [NoTrial EXCEPT !.vault = v, !.password = pw, !.salt = s] :
                    v \in TrialVaults, pw \in Passwords, s \in Salts }

NextCipher ==
    \/ TrialEncrypt
    \/ TrialDecrypt

SpecCipher == InitCipher /\ [][NextCipher]_vars

(***************************************************************************)
(* The local engine.                                                       *)
(***************************************************************************)
NextLocal ==
    \/ EngineInit
    \/ AddKey
    \/ GetKey
    \/ ListKeys
    \/ ExecWithKeys
    \/ ExportForShell
    \/ RemoveKey
    \/ Restart

SpecLocal == Init /\ [][NextLocal]_vars

(***************************************************************************)
(* Vocabulary of the properties.                                           *)
(***************************************************************************)
\* the <<platform, keyName>> pairs a vault holds an entry for
Entries(vault) == { <<p, k>> : p \in DOMAIN vault, k \in KeyNames } \cap
                  UNION { { <<p, k>> : k \in DOMAIN vault[p] } : p \in DOMAIN vault }

\* the vault inside the blob stored for username
StoredVault(username) == JSONparse(kvStore[VaultKey(username)].encrypted.pt)

\* the password the blob was encrypted with
BlobPassword(blob) == blob.encrypted.k[1]

NoEmptyPlatform(vault) == \A p \in DOMAIN vault : DOMAIN vault[p] # {}

\* invocation r is a POST of the given operation about to read the stored
\* vault, with a master password that opens it
Opens(r, operation) ==
    /\ req[r].pc = "vault_getVault"
    /\ req[r].httpMethod = "POST"
    /\ req[r].operation = operation
    /\ KvHas(VaultKey(req[r].username))
    /\ ~Falsy(req[r].masterPassword)
    /\ ~decryptThrows(kvStore[VaultKey(req[r].username)], req[r].masterPassword,
                      req[r].salt)

\* invocation r has just answered
Answers(r) == req[r].pc \notin {"idle", "done"} /\ req'[r].pc = "done"

(***************************************************************************)
(* C1.  No lost update: when two adds against one identity, one of (p,"a") *)
(* and one of (p,"b"), have both answered success, the vault blob in the   *)
(* store holds both entries.                                               *)
(***************************************************************************)
C1_NoLostUpdate ==
    \A r1, r2 \in AllSlots :
        ( /\ r1 # r2
          /\ req[r1].pc = "done" /\ req[r2].pc = "done"
          /\ req[r1].operation = "add" /\ req[r2].operation = "add"
          /\ req[r1].statusCode = 200 /\ req[r2].statusCode = 200
          /\ req[r1].username = req[r2].username
          /\ req[r1].platform = req[r2].platform
          /\ req[r1].keyName = "a" /\ req[r2].keyName = "b" )
        => {<<req[r1].platform, "a">>, <<req[r1].platform, "b">>}
                \subseteq Entries(StoredVault(req[r1].username))

(***************************************************************************)
(* C2.  Wrong-password rejection on open: a login for an identity whose    *)
(* vault blob exists, with a password that does not decrypt it, ends with  *)
(* the invalid-credentials answer (401) and issues no token.               *)
(***************************************************************************)
C2_WrongPasswordRejected ==
    [][\A r \in AllSlots :
        ( /\ req[r].pc = "login_getVault"
          /\ req'[r].pc # "login_getVault"
          /\ KvHas(VaultKey(req[r].username))
          /\ decryptThrows(kvStore[VaultKey(req[r].username)],
                           req[r].masterPassword, req[r].salt) )
        => ( /\ req'[r].pc = "done"
             /\ req'[r].statusCode = 401
             /\ tokens' = tokens )]_vars

(***************************************************************************)
(* C3.  Persist before success: when an add or remove answers success,     *)
(* its store set of the vault blob has resolved, and the blob stored is    *)
(* the encryption of the vault as the mutation left it.                    *)
(***************************************************************************)
C3_PersistBeforeSuccess ==
    [][\A r \in AllSlots :
        ( /\ Answers(r)
          /\ req'[r].endpoint = "vault"
          /\ req'[r].operation \in {"add", "remove"}
          /\ req'[r].statusCode = 200 )
        => ( /\ req[r].vaultSet
             /\ KvHas(VaultKey(req[r].username))
             /\ kvStore[VaultKey(req[r].username)] = req[r].updatedVault
             /\ ~decryptThrows(req[r].updatedVault, req[r].masterPassword, req[r].salt)
             /\ decrypt(req[r].updatedVault, req[r].masterPassword, req[r].salt)
                    = req[r].vault )]_vars

\* an add or remove has answered success
C3_Witness ==
    \E r \in AllSlots :
        /\ req[r].pc = "done"
        /\ req[r].operation \in {"add", "remove"}
        /\ req[r].statusCode = 200
        /\ req[r].vaultSet

(***************************************************************************)
(* C4.  Rollback on persistence failure: when saving the vault fails       *)
(* during addKey or removeKey, the call fails and the in-memory vault of   *)
(* the engine is what it was before the call.                              *)
(***************************************************************************)
C4_RollbackOnPersistFailure ==
    [][( /\ calls' = calls + 1
         /\ outcome'.call \in {"addKey", "removeKey"}
         /\ outcome'.threw
         /\ outcome'.error = "write failed" )
       => engine'.vault = engine.vault]_vars

(***************************************************************************)
(* C5.  Empty-platform invariant: no vault, persisted or in the memory of  *)
(* an invocation about to persist it, maps a platform to an empty key      *)
(* mapping.                                                                *)
(***************************************************************************)
C5_NoEmptyPlatform ==
    /\ \A u \in Users : KvHas(VaultKey(u)) => NoEmptyPlatform(StoredVault(u))
    /\ \A r \in AllSlots :
          req[r].pc = "vault_setVault" => NoEmptyPlatform(req[r].vault)

(***************************************************************************)
(* C6.  Remove result: remove(p,k) on a vault holding (p,k) gives a vault  *)
(* without (p,k), without platform p exactly when k was its only key, and  *)
(* with every other entry and platform as it was; when k was the only key  *)
(* of p, list() of the result has no entry for p.                          *)
(***************************************************************************)
C6_RemoveResult ==
    [][\A r \in AllSlots :
        ( /\ Opens(r, "remove")
          /\ <<req[r].platform, req[r].keyName>> \in Entries(StoredVault(req[r].username))
          /\ req'[r].pc # "vault_getVault" )
        => LET pre == StoredVault(req[r].username)
               post == req'[r].vault
               p == req[r].platform
               k == req[r].keyName
           IN  /\ req'[r].pc = "vault_setVault"
               /\ Entries(post) = Entries(pre) \ {<<p, k>>}
               /\ \A e \in Entries(post) : post[e[1]][e[2]] = pre[e[1]][e[2]]
               /\ (p \notin DOMAIN post) <=> (DOMAIN pre[p] = {k})
               /\ (DOMAIN post) \ {p} = (DOMAIN pre) \ {p}
               /\ (DOMAIN pre[p] = {k}) => p \notin DOMAIN ListResult(post)]_vars

\* a remove took the last key of a platform out of a vault that holds more
C6_Witness ==
    \E r \in AllSlots :
        /\ req[r].pc = "vault_setVault"
        /\ req[r].operation = "remove"
        /\ req[r].platform \notin DOMAIN req[r].vault
        /\ Entries(req[r].vault) # {}

(***************************************************************************)
(* C7.  Overwrite semantics: an add(p,k,v2) after a successful add(p,k,v1) *)
(* does not fail and leaves exactly one entry for (p,k), with value v2 and *)
(* the time of the second add; every other entry is as it was.             *)
(***************************************************************************)
C7_Overwrite ==
    [][\A r \in AllSlots :
        ( /\ Opens(r, "add")
          /\ <<req[r].username, req[r].platform, req[r].keyName>> \in live
          /\ ~Falsy(req[r].keyValue)
          /\ req'[r].pc # "vault_getVault" )
        => LET pre == StoredVault(req[r].username)
               post == req'[r].vault
               p == req[r].platform
               k == req[r].keyName
           IN  /\ req'[r].pc = "vault_setVault"
               /\ Entries(post) = Entries(pre) \cup {<<p, k>>}
               /\ post[p][k].value = req[r].keyValue
               /\ post[p][k].added = now'
               /\ \A e \in Entries(pre) \ {<<p, k>>} :
                      post[e[1]][e[2]] = pre[e[1]][e[2]]]_vars

(***************************************************************************)
(* C8.  Remove of a missing entry: remove(p,k) on a vault with no entry    *)
(* (p,k) answers 'Key not found' (404) and writes nothing to the store.    *)
(***************************************************************************)
C8_RemoveMissing ==
    [][\A r \in AllSlots :
        ( /\ Opens(r, "remove")
          /\ ~Falsy(req[r].platform) /\ ~Falsy(req[r].keyName)
          /\ <<req[r].platform, req[r].keyName>>
                \notin Entries(StoredVault(req[r].username))
          /\ req'[r].pc # "vault_getVault" )
        => ( /\ req'[r].pc = "done"
             /\ req'[r].statusCode = 404
             /\ kvStore' = kvStore )]_vars

(***************************************************************************)
(* C9.  Wrong password on a vault operation: a list, get, add or remove    *)
(* carrying a master password other than the one the stored blob was       *)
(* encrypted with answers 401 'Invalid master password', with nothing of   *)
(* the vault in the body, and leaves the store as it was.                  *)
(***************************************************************************)
C9_WrongPasswordOnOperation ==
    [][\A r \in AllSlots :
        ( /\ req[r].pc = "vault_getVault"
          /\ req[r].httpMethod = "POST"
          /\ req[r].operation \in {"list", "get", "add", "remove"}
          /\ KvHas(VaultKey(req[r].username))
          /\ ~Falsy(req[r].masterPassword)
          /\ req[r].masterPassword # BlobPassword(kvStore[VaultKey(req[r].username)])
          /\ req'[r].pc # "vault_getVault" )
        => ( /\ req'[r].pc = "done"
             /\ req'[r].statusCode = 401
             /\ DOMAIN req'[r].body = {"error"}
             /\ req'[r].body.error = "Invalid master password"
             /\ ~req'[r].vaultSet /\ ~req'[r].lastModifiedSet
             /\ kvStore' = kvStore )]_vars

\* a list that can only have been turned down for its password
C9_Witness ==
    \E r \in AllSlots :
        /\ req[r].pc = "done"
        /\ req[r].endpoint = "vault"
        /\ req[r].operation = "list"
        /\ req[r].statusCode = 401
        /\ Entries(StoredVault(req[r].username)) # {}

(***************************************************************************)
(* C10.  list() never discloses secret values: the answer of a list maps   *)
(* each platform of the vault to one item per key, each item carrying      *)
(* exactly name, added and meta, and the (platform, name) pairs listed are *)
(* the entries of the vault.                                               *)
(***************************************************************************)
C10_ListHidesValues ==
    \A r \in Slots :
        ( /\ req[r].pc = "done"
          /\ req[r].endpoint = "vault"
          /\ req[r].operation = "list"
          /\ req[r].statusCode = 200 )
        => LET vault == StoredVault(req[r].username)
               result == req[r].body
           IN  /\ DOMAIN result = DOMAIN vault
               /\ \A p \in DOMAIN result :
                    /\ { item.name : item \in result[p] } = DOMAIN vault[p]
                    /\ Cardinality(result[p]) = Cardinality(DOMAIN vault[p])
                    /\ \A item \in result[p] :
                          /\ DOMAIN item = {"name", "added", "meta"}
                          /\ item.added = vault[p][item.name].added
                          /\ item.meta = vault[p][item.name].meta

\* a list has answered with items
C10_Witness ==
    \E r \in Slots :
        /\ req[r].pc = "done"
        /\ req[r].operation = "list"
        /\ req[r].statusCode = 200
        /\ \E p \in DOMAIN req[r].body : Cardinality(req[r].body[p]) = 2

(***************************************************************************)
(* C11.  Salt stability: once a vault blob is stored for an identity, no   *)
(* step of any login or vault operation, however interleaved, changes or   *)
(* removes the salt stored for that identity.                              *)
(***************************************************************************)
C11_SaltStable ==
    [][\A u \in Users :
        KvHas(VaultKey(u))
        => ( /\ KvHas(SaltKey(u))
             /\ SaltKey(u) \in DOMAIN kvStore'
             /\ kvStore'[SaltKey(u)] = kvStore[SaltKey(u)] )]_vars

(***************************************************************************)
(* C12.  Vault creation on first open: when a login that found no vault    *)
(* blob answers success, the store holds a salt and a vault blob for the   *)
(* identity, the blob is the encryption of the empty vault under the key   *)
(* derived from the login's password and the stored salt, and a list()     *)
(* with that password gives the empty mapping.                             *)
(***************************************************************************)
C12_CreatesOnFirstOpen ==
    [][\A r \in AllSlots :
        ( /\ req[r].pc = "login_setVault"
          /\ req'[r].pc = "done"
          /\ req'[r].statusCode = 200 )
        => LET u == req[r].username
               pw == req[r].masterPassword
           IN  /\ SaltKey(u) \in DOMAIN kvStore'
               /\ VaultKey(u) \in DOMAIN kvStore'
               /\ ~decryptThrows(kvStore'[VaultKey(u)], pw, kvStore'[SaltKey(u)])
               /\ decrypt(kvStore'[VaultKey(u)], pw, kvStore'[SaltKey(u)]) = EmptyObject
               /\ ListResult(decrypt(kvStore'[VaultKey(u)], pw, kvStore'[SaltKey(u)]))
                      = EmptyObject]_vars

(***************************************************************************)
(* C13.  Read-your-writes, one request at a time with the right password:  *)
(* an add(p,k,v,meta) leaves in the vault it persists the entry            *)
(* {value: v, added, meta} for (p,k), meta being {} when omitted; a        *)
(* get(p,k) on a vault holding (p,k) answers that entry, which list()      *)
(* reports under p; a get(p,k) on a vault without (p,k) answers 'Key not   *)
(* found' (404).                                                           *)
(***************************************************************************)
C13_ReadYourWrites ==
    [][\A r \in Slots :
        LET u == req[r].username
            p == req[r].platform
            k == req[r].keyName
        IN  /\ ( /\ Opens(r, "add")
                 /\ ~Falsy(p) /\ ~Falsy(k) /\ ~Falsy(req[r].keyValue)
                 /\ req'[r].pc # "vault_getVault" )
               => ( /\ req'[r].pc = "vault_setVault"
                    /\ <<p, k>> \in Entries(req'[r].vault)
                    /\ req'[r].vault[p][k]
                          = [value |-> req[r].keyValue, added |-> now',
                             meta |-> IF req[r].meta = "undefined" THEN "{}"
                                      ELSE req[r].meta] )
            /\ ( /\ Opens(r, "get")
                 /\ ~Falsy(p) /\ ~Falsy(k)
                 /\ req'[r].pc # "vault_getVault" )
               => IF <<p, k>> \in Entries(StoredVault(u))
                  THEN /\ req'[r].pc = "done"
                       /\ req'[r].statusCode = 200
                       /\ req'[r].body = StoredVault(u)[p][k]
                       /\ DOMAIN req'[r].body = {"value", "added", "meta"}
                       /\ \E item \in ListResult(StoredVault(u))[p] : item.name = k
                  ELSE /\ req'[r].pc = "done"
                       /\ req'[r].statusCode = 404
                       /\ req'[r].body = [error |-> "Key not found"]]_vars

(***************************************************************************)
(* C14.  Persistence failures are reported as such: when a store set       *)
(* throws during an add or remove, the answer is a server-side             *)
(* (retryable) error, never the 401 'Invalid master password' of a wrong   *)
(* password.                                                               *)
(***************************************************************************)
C14_PersistenceErrorClassified ==
    [][\A r \in AllSlots :
        ( /\ req[r].pc \in {"vault_setVault", "vault_setLastModified"}
          /\ req'[r].pc = "done"
          /\ ~req'[r].lastModifiedSet )
        => ( /\ req'[r].statusCode >= 500
             /\ req'[r].statusCode # 401
             /\ req'[r].body # [error |-> "Invalid master password"] )]_vars

(***************************************************************************)
(* C15.  No wrong-password/corruption distinction: a list, get, add or     *)
(* remove that finds the stored blob unopenable, whether because the       *)
(* password is not the blob's, because the blob was altered, or because    *)
(* the blob is shorter than 32 bytes, gets one and the same answer, 401    *)
(* 'Invalid master password', and leaves the store as it was.              *)
(***************************************************************************)
C15_SameErrorWhateverCause ==
    [][\A r \in AllSlots :
        ( /\ req[r].pc = "vault_getVault"
          /\ req[r].httpMethod = "POST"
          /\ req[r].operation \in {"list", "get", "add", "remove"}
          /\ ~Falsy(req[r].masterPassword)
          /\ KvHas(VaultKey(req[r].username))
          /\ LET blob == kvStore[VaultKey(req[r].username)]
             IN  \/ blob.authTag = <<>>
                 \/ ~Intact(blob)
                 \/ blob.encrypted.k # deriveKey(req[r].masterPassword, req[r].salt)
          /\ req'[r].pc # "vault_getVault" )
        => ( /\ req'[r] = Error(req[r], 401, "Invalid master password")
             /\ kvStore' = kvStore )]_vars

(***************************************************************************)
(* C16.  Cross-identity independence: a step of a request made for         *)
(* identity A leaves the salt, the vault blob and lastModified of every    *)
(* other identity B as they were (set or not set, and to what), and what   *)
(* it reads (salt, vault blob, lastModified) it reads under A's keys,      *)
(* however the requests of A and B interleave.                             *)
(***************************************************************************)
C16_CrossIdentityIndependence ==
    [][\A r \in AllSlots :
        req'[r] # req[r]
        => LET a == req'[r].username
           IN  /\ \A b \in Users \ {a} :
                    \A key \in {SaltKey(b), VaultKey(b), LastModifiedKey(b)} :
                        /\ key \in DOMAIN kvStore' <=> key \in DOMAIN kvStore
                        /\ key \in DOMAIN kvStore => kvStore'[key] = kvStore[key]
               /\ ( /\ req[r].pc \in {"idle", "done"}
                    /\ req'[r].pc \in {"login_getVault", "vault_getVault"} )
                  => ( /\ KvHas(SaltKey(a))
                       /\ req'[r].salt = kvStore[SaltKey(a)] )
               /\ ( /\ req[r].pc = "vault_getVault"
                    /\ req'[r].pc \in {"vault_setVault", "vault_getLastModified"} )
                  => ( /\ KvHas(VaultKey(a))
                       /\ req'[r].encryptedVault = kvStore[VaultKey(a)] )
               /\ req[r].pc = "vault_getLastModified"
                  => ( /\ req'[r].body.username = a
                       /\ req'[r].body.lastModified
                            = IF KvHas(LastModifiedKey(a))
                              THEN kvStore[LastModifiedKey(a)]
                              ELSE NoLastModified )]_vars

\* an add of alice has answered success while a mutation of bob is on its
\* way to the store, and the two vaults stored differ
C16_Witness ==
    \E r, q \in AllSlots :
        /\ req[r].pc = "done"
        /\ req[r].username = "alice"
        /\ req[r].operation = "add"
        /\ req[r].statusCode = 200
        /\ req[q].username = "bob"
        /\ req[q].pc = "vault_setVault"
        /\ KvHas(VaultKey("bob"))
        /\ Entries(StoredVault("alice")) # Entries(StoredVault("bob"))

(***************************************************************************)
(* C17.  lastModified tracks successful mutations: an add or remove that   *)
(* answers success has, after its write of the vault blob, set the         *)
(* identity's lastModified to the time of the write; and lastModified is   *)
(* set by nothing else: not by a login, a list, a get, a metadata GET, nor *)
(* by an add or remove that fails.                                         *)
(***************************************************************************)
C17_LastModifiedTracksMutations ==
    [][/\ \A r \in AllSlots :
            ( /\ Answers(r)
              /\ req'[r].endpoint = "vault"
              /\ req'[r].operation \in {"add", "remove"}
              /\ req'[r].statusCode = 200 )
            => ( /\ req[r].pc = "vault_setLastModified"
                 /\ req[r].vaultSet
                 /\ req'[r].lastModifiedSet
                 /\ LastModifiedKey(req[r].username) \in DOMAIN kvStore'
                 /\ kvStore'[LastModifiedKey(req[r].username)] = now' )
       /\ \A u \in Users :
            ( \/ (LastModifiedKey(u) \in DOMAIN kvStore')
                    # (LastModifiedKey(u) \in DOMAIN kvStore)
              \/ /\ LastModifiedKey(u) \in DOMAIN kvStore
                 /\ kvStore'[LastModifiedKey(u)] # kvStore[LastModifiedKey(u)]
              \/ \E r \in AllSlots :
                    /\ req'[r].username = u
                    /\ req'[r].lastModifiedSet /\ ~req[r].lastModifiedSet )
            => \E r \in AllSlots :
                    /\ req[r].pc = "vault_setLastModified"
                    /\ req[r].username = u
                    /\ req[r].httpMethod = "POST"
                    /\ req[r].operation \in {"add", "remove"}
                    /\ req[r].vaultSet
                    /\ req'[r].pc = "done"
                    /\ req'[r].statusCode = 200]_vars

\* a remove has answered success and lastModified holds the clock reading
\* of its write
C17_Witness ==
    \E r \in AllSlots :
        /\ req[r].pc = "done"
        /\ req[r].operation = "remove"
        /\ req[r].statusCode = 200
        /\ req[r].lastModifiedSet
        /\ KvHas(LastModifiedKey(req[r].username))
        /\ kvStore[LastModifiedKey(req[r].username)] = MaxClock

C20_LoginKeepsCredentials ==
    \A t \in live :
        /\ KvHas(VaultKey(t[1]))
        /\ <<t[2], t[3]>> \in Entries(StoredVault(t[1]))

(***************************************************************************)
(* C21.  Single master secret per vault: whenever a vault blob is stored   *)
(* for an identity, it opens under the key derived from the blob's         *)
(* password and the salt stored for the identity, and no step of any       *)
(* login, add or remove changes the password of the stored blob: it stays  *)
(* the password of the first blob persisted.                               *)
(***************************************************************************)
C21_SingleMasterSecret ==
    [][\A u \in Users :
        VaultKey(u) \in DOMAIN kvStore'
        => ( /\ SaltKey(u) \in DOMAIN kvStore'
             /\ ~decryptThrows(kvStore'[VaultKey(u)],
                               BlobPassword(kvStore'[VaultKey(u)]),
                               kvStore'[SaltKey(u)])
             /\ KvHas(VaultKey(u))
                => BlobPassword(kvStore'[VaultKey(u)])
                      = BlobPassword(kvStore[VaultKey(u)]) )]_vars

\* the methods of the local engine that need an open vault
GuardedCalls ==
    {"addKey", "getKey", "listKeys", "removeKey", "execWithKeys", "exportForShell"}

(* C22.  Session state guard of the local engine: 'initialized' turns from *)
(* false to true only in an init() that returned without throwing, and     *)
(* then the vault file exists and opens under the password the engine      *)
(* holds (unlockVault or createVault completed successfully); while        *)
(* 'initialized' is false, every call of addKey, getKey, listKeys,         *)
(* removeKey, execWithKeys and exportForShell throws 'Vault not            *)
(* initialized' and leaves the in-memory vault and the vault file as they  *)
(* were.                                                                   *)
C22_SessionStateGuard ==
    [][ /\ (~engine.initialized /\ engine'.initialized)
           => /\ outcome'.call = "init"
              /\ ~outcome'.threw
              /\ vaultFile'.exists
              /\ ~decryptThrows(vaultFile'.data, engine'.masterPassword, LocalSalt)
        /\ (~engine.initialized /\ calls' = calls + 1
                /\ outcome'.call \in GuardedCalls)
           => /\ outcome'.threw
              /\ outcome'.error = "Vault not initialized"
              /\ engine'.vault = engine.vault
              /\ vaultFile' = vaultFile ]_vars

\* an engine whose unlock failed on an existing vault file (it holds the
\* password tried, and is not initialized) has refused exportForShell
C22_Witness ==
    /\ ~engine.initialized
    /\ vaultFile.exists
    /\ engine.masterPassword # Null
    /\ decryptThrows(vaultFile.data, engine.masterPassword, LocalSalt)
    /\ outcome.call = "exportForShell"
    /\ outcome.threw
    /\ outcome.error = "Vault not initialized"

====
